---- MODULE Spec2Model ----
(***************************************************************************)
(* Yangson: the DataModel constructor and its two-pass schema build, the   *)
(* Datastore facade, the predicate token pattern, the JSON-Schema command  *)
(* and its schema walk.                                                     *)
(***************************************************************************)
EXTENDS Integers, Sequences, FiniteSets, TLC

VARIABLES
    caller,           \* who runs the constructor: "main" (json_schema.main) or "direct"
    fileState,        \* what open(ylib) meets, for main
    yltxt,            \* the library text handed to DataModel.__init__
    pc,               \* position of the running call
    exc,              \* the exception in flight or raised ("none" when there is none)
    ret,              \* main's return code (-1: none yet)
    datastores,       \* DataModel.datastores
    heap,             \* SchemaTreeNode objects by identity
    root,             \* local `root` of DataModel.__init__ (0: not created)
    module_sequence,  \* SchemaData.module_sequence
    i,                \* position of pass 1 in module_sequence
    j,                \* position of pass 2 in the augment statements
    trace,            \* the calls _build_schema has made on the tree, in order
    result,           \* outcome of the last Datastore call
    text,             \* subject string of pred_re.match
    offset,           \* start offset of pred_re.match
    matched,          \* outcome of pred_re.match
    choice,           \* the ChoiceNode walk_json_schema is called on
    wpc,              \* position of walk_json_schema
    ci,               \* index of the next child of the choice
    objs,             \* dict and list objects of the walk, by identity
    parent_level_data,\* the dict passed in by the caller
    children_data,    \* the local dict of lines 81-86
    cases             \* the local list `cases`

dmVars   == <<caller, fileState, yltxt, pc, exc, ret, datastores, heap, root,
             module_sequence, i, j, trace, result>>
predVars == <<text, offset, matched>>
walkVars == <<choice, wpc, ci, objs, parent_level_data, children_data, cases>>
vars     == <<dmVars, predVars, walkVars>>

----------------------------------------------------------------------------
(* Bounds of the model *)

MaxModules == 3      \* longest module_sequence
MaxPathLen == 2      \* longest path handed to the facade
MaxTextLen == 6      \* longest subject string of pred_re
MaxOffset == 1       \* largest start offset of a match
MaxCases == 2        \* most cases of a choice
MaxCaseChildren == 2 \* most children of a case

----------------------------------------------------------------------------
(* Generic helpers *)

EmptyMap == [x \in {} |-> 0]

RECURSIVE SeqsUpTo(_, _)
SeqsUpTo(S, n) ==
    IF n = 0 THEN {<<>>}
    ELSE LET shorter == SeqsUpTo(S, n - 1)
         IN  shorter \cup {Append(s, x) : s \in {t \in shorter : Len(t) = n - 1}, x \in S}

Range(s) == {s[n] : n \in DOMAIN s}

NoRepeat(s) == \A m, n \in DOMAIN s : m # n => s[m] # s[n]

----------------------------------------------------------------------------
(* The modules a library can list: what the statement parser hands over.   *)
(* A top-level statement is a container with a name, a config flag and     *)
(* leaf substatements; an augment names a target path and the node it adds.*)

Leaf(n, c) == [name |-> n, config |-> c]
Top(n, c, subs) == [name |-> n, config |-> c, sub |-> subs]
Aug(t, n, c) == [target |-> t, name |-> n, config |-> c]

ModuleIds == {"ma", "mb", "mc", "md", "me"}

modules ==
    [mid \in ModuleIds |->
       CASE mid = "ma" ->
              [imports |-> {},
               top |-> <<Top("a", TRUE, <<Leaf("k", TRUE), Leaf("s", FALSE)>>)>>,
               augments |-> <<>>]
         [] mid = "mb" ->
              [imports |-> {"ma"},
               top |-> <<Top("b", TRUE, <<>>)>>,
               augments |-> <<Aug(<<"a">>, "x", FALSE)>>]
         [] mid = "mc" ->
              [imports |-> {"ma", "mb"},
               top |-> <<>>,
               augments |-> <<Aug(<<"a", "x">>, "y", FALSE)>>]
         [] mid = "md" ->
              [imports |-> {},
               top |-> <<Top("a", TRUE, <<>>)>>,
               augments |-> <<Aug(<<"a">>, "y", TRUE)>>]
         [] mid = "me" ->
              [imports |-> {"ma", "mb"},
               top |-> <<>>,
               augments |-> <<Aug(<<"a">>, "y", TRUE), Aug(<<"b">>, "y", FALSE)>>]]

\* the sets of modules a library lists
ModuleSets == {S \in SUBSET ModuleIds : Cardinality(S) <= MaxModules}

\* every import of a listed module is listed
ImportsListed(S) == \A m \in S : modules[m].imports \subseteq S

\* no module comes before a module it imports
DependencyOrder(ms) ==
    \A a, b \in DOMAIN ms : ms[a] \in modules[ms[b]].imports => a < b

ModuleSequences == {s \in SeqsUpTo(ModuleIds, MaxModules) : NoRepeat(s)}

----------------------------------------------------------------------------
(* The schema tree: each node's ordered children, by the node's path.      *)

EmptyTree == (<<>> :> <<>>)

ChildNames(t, p) == {t[p][n].name : n \in DOMAIN t[p]}

AddChild(t, p, c) ==
    [t EXCEPT ![p] = Append(@, c)] @@ (Append(p, c.name) :> <<>>)

Front(p) == SubSeq(p, 1, Len(p) - 1)

ChildRec(t, p) ==
    LET par == Front(p)
    IN  CHOOSE c \in Range(t[par]) : c.name = p[Len(p)]

\* the node at p was instantiated in pass 1 (or is the root)
ExistsBeforeAugments(t, p) ==
    \/ p = <<>>
    \/ /\ p \in DOMAIN t
       /\ ~ChildRec(t, p).aug

RECURSIVE AddLeaves(_, _, _)
AddLeaves(t, p, subs) ==
    IF subs = <<>> THEN t
    ELSE AddLeaves(AddChild(t, p, [name |-> subs[1].name, config |-> subs[1].config,
                                   aug |-> FALSE]),
                   p, Tail(subs))

\* SchemaTreeNode.handle_substatements: instantiate a module's top-level nodes
RECURSIVE handle_substatements(_, _)
handle_substatements(t, stmts) ==
    IF stmts = <<>> THEN [err |-> "none", tree |-> t]
    ELSE IF stmts[1].name \in ChildNames(t, <<>>)
         THEN [err |-> "DuplicateTopLevelNode", tree |-> t]
         ELSE handle_substatements(
                  AddLeaves(AddChild(t, <<>>, [name |-> stmts[1].name,
                                               config |-> stmts[1].config,
                                               aug |-> FALSE]),
                            <<stmts[1].name>>, stmts[1].sub),
                  Tail(stmts))

\* SchemaTreeNode.augment_stmt: add the augment's node under its target
augment_stmt(t, aug) ==
    IF ~ExistsBeforeAugments(t, aug.target)
    THEN [err |-> "UnresolvedAugmentTarget", tree |-> t]
    ELSE IF aug.name \in ChildNames(t, aug.target)
         THEN [err |-> "DuplicateNode", tree |-> t]
         ELSE [err |-> "none",
               tree |-> AddChild(t, aug.target, [name |-> aug.name,
                                                 config |-> aug.config,
                                                 aug |-> TRUE])]

\* the augment statements with the modules taken last to first
RECURSIVE AugList_rev(_)
AugList_rev(ms) ==
    IF ms = <<>> THEN <<>>
    ELSE AugList_rev(Tail(ms))
         \o [k \in DOMAIN modules[ms[1]].augments |->
                [mid |-> ms[1], k |-> k, stmt |-> modules[ms[1]].augments[k]]]

\* the augment statements in the order of the nested loops of lines 210-214
RECURSIVE AugList(_)
AugList(ms) ==
    IF ms = <<>> THEN <<>>
    ELSE [k \in DOMAIN modules[ms[1]].augments |->
             [mid |-> ms[1], k |-> k, stmt |-> modules[ms[1]].augments[k]]]
         \o AugList(Tail(ms))

----------------------------------------------------------------------------
(* The library text and json.loads *)

NoExc == [cls |-> "none", msg |-> ""]
Exc(c, m) == [cls |-> c, msg |-> m]

LibraryTexts ==
    {[wf |-> FALSE, jtype |-> "none", marker |-> FALSE, mods |-> {}]}
    \cup {[wf |-> TRUE, jtype |-> t, marker |-> FALSE, mods |-> {}] :
              t \in {"number", "null", "array", "object"}}
    \cup {[wf |-> TRUE, jtype |-> "object", marker |-> TRUE, mods |-> S] :
              S \in ModuleSets}

\* json.loads: the parsed value, or JSONDecodeError for text that is not JSON
json_loads(txt) ==
    IF txt.wf
    THEN [err |-> "none",
          value |-> [jtype |-> txt.jtype, marker |-> txt.marker, mods |-> txt.mods]]
    ELSE [err |-> "JSONDecodeError", value |-> [jtype |-> "none", marker |-> FALSE,
                                                 mods |-> {}]]

\* "ietf-yang-library:modules-state" in value: membership for an object or an
\* array, TypeError for a value that is no container
contains_marker(value) ==
    IF value.jtype \in {"object", "array"}
    THEN [err |-> "none", found |-> value.marker]
    ELSE [err |-> "TypeError", found |-> FALSE]

\* exceptions the SchemaData constructor documents
SchemaDataErrors ==
    {"BadYangLibraryData", "FeaturePrerequisiteError", "MultipleImplementedRevisions",
     "ModuleNotFound", "ModuleNotRegistered"}

Datastore(schema, content_type) ==
    [schema |-> schema, schema_data |-> "sdata", content_type |-> content_type]

\* self.datastores = {}
InitialDatastores_mut == ("config" :> Datastore(1, "config"))
InitialDatastores == EmptyMap

NoResult == [op |-> "none", ds |-> "none", arg |-> <<>>, err |-> "none",
             val |-> [found |-> FALSE, node |-> <<>>]]

----------------------------------------------------------------------------
(* DataModel.__init__ and DataModel._build_schema *)

Raise(e) ==
    /\ exc' = e
    /\ pc' = "raised"

\* lines 181-187, 193-194: reset datastores, parse the text, look for the marker
DataModel_init ==
    /\ pc = "ctor"
    /\ datastores' = InitialDatastores
    /\ LET parsed == json_loads(yltxt)
           test == contains_marker(parsed.value)
       IN  IF parsed.err # "none"
           THEN Raise(Exc("BadYangLibraryData", "JSONDecodeError"))
           ELSE IF test.err # "none"
                THEN Raise(Exc(test.err, "argument is not iterable"))
                ELSE IF test.found
                     THEN pc' = "sdata" /\ exc' = exc
                     ELSE Raise(Exc("BadYangLibraryData",
                                    "top-level member not recognized"))
    /\ UNCHANGED <<caller, fileState, yltxt, ret, heap, root, module_sequence, i, j,
                   trace, result>>

AfterPass1(ms) == IF AugList(ms) = <<>> THEN "post" ELSE "pass2"

\* lines 188-189: root = SchemaTreeNode(); sdata = SchemaData(...), which puts
\* the listed modules in an order of their dependencies or raises
SchemaData_init ==
    /\ pc = "sdata"
    /\ root' = 1
    /\ heap' = (1 :> EmptyTree)
    /\ \/ /\ ImportsListed(json_loads(yltxt).value.mods)
          /\ \E ms \in ModuleSequences :
                /\ Range(ms) = json_loads(yltxt).value.mods
                /\ DependencyOrder(ms)
                /\ module_sequence' = ms
                /\ pc' = IF ms = <<>> THEN "post" ELSE "pass1"
          /\ exc' = exc
       \/ /\ \E e \in SchemaDataErrors : Raise(Exc(e, "schema data"))
          /\ UNCHANGED module_sequence
    /\ i' = 1
    /\ j' = 1
    /\ UNCHANGED <<caller, fileState, yltxt, ret, datastores, trace, result>>

\* lines 207-209: one iteration of the first loop
Pass1Step ==
    /\ pc = "pass1"
    /\ i <= Len(module_sequence)
    /\ LET mid == module_sequence[i]
           r == handle_substatements(heap[root], modules[mid].top)
       IN  /\ trace' = Append(trace, <<"handle_substatements", mid, 0>>)
           /\ heap' = [heap EXCEPT ![root] = r.tree]
           /\ IF r.err # "none"
              THEN Raise(Exc(r.err, mid)) /\ i' = i
              ELSE /\ i' = i + 1
                   /\ pc' = IF i = Len(module_sequence)
                            THEN AfterPass1(module_sequence) ELSE "pass1"
                   /\ exc' = exc
    /\ UNCHANGED <<caller, fileState, yltxt, ret, datastores, root, module_sequence,
                   j, result>>

\* lines 210-214: one augment statement of the second loop
Pass2Step ==
    /\ pc = "pass2"
    /\ j <= Len(AugList(module_sequence))
    /\ LET a == AugList(module_sequence)[j]
           r == augment_stmt(heap[root], a.stmt)
       IN  /\ trace' = Append(trace, <<"augment_stmt", a.mid, a.k>>)
           /\ heap' = [heap EXCEPT ![root] = r.tree]
           /\ IF r.err # "none"
              THEN Raise(Exc(r.err, a.mid)) /\ j' = j
              ELSE /\ j' = j + 1
                   /\ pc' = IF j = Len(AugList(module_sequence)) THEN "post" ELSE "pass2"
                   /\ exc' = exc
    /\ UNCHANGED <<caller, fileState, yltxt, ret, datastores, root, module_sequence,
                   i, result>>

\* line 215: schema.post_process()
PostProcess ==
    /\ pc = "post"
    /\ trace' = Append(trace, <<"post_process", "", 0>>)
    /\ \/ pc' = "patterns" /\ exc' = exc
       \/ Raise(Exc("UnresolvedTypeReference", "post_process"))
    /\ UNCHANGED <<caller, fileState, yltxt, ret, datastores, heap, root,
                   module_sequence, i, j, result>>

\* line 216: schema.make_schema_patterns()
MakeSchemaPatterns ==
    /\ pc = "patterns"
    /\ trace' = Append(trace, <<"make_schema_patterns", "", 0>>)
    /\ \/ pc' = "reg_config" /\ exc' = exc
       \/ Raise(Exc("YangsonException", "make_schema_patterns"))
    /\ UNCHANGED <<caller, fileState, yltxt, ret, datastores, heap, root,
                   module_sequence, i, j, result>>

\* line 191
RegisterConfig ==
    /\ pc = "reg_config"
    /\ datastores' = ("config" :> Datastore(root, "config")) @@ datastores
    /\ pc' = "reg_operational"
    /\ UNCHANGED <<caller, fileState, yltxt, exc, ret, heap, root, module_sequence,
                   i, j, trace, result>>

\* line 192
RegisterOperational ==
    /\ pc = "reg_operational"
    /\ datastores' = ("operational" :> Datastore(root, "all")) @@ datastores
    /\ pc' = "built"
    /\ UNCHANGED <<caller, fileState, yltxt, exc, ret, heap, root, module_sequence,
                   i, j, trace, result>>

----------------------------------------------------------------------------
(* The Datastore facade *)

\* path segments: names of the tree, and the empty segment of a malformed path
PathSegments == {"a", "s", "x", ""}

Paths == SeqsUpTo(PathSegments, MaxPathLen)

\* the texts handed to the schema-path and identifier parsers
Texts == {<<>>, <<"a">>, <<"a", "x">>, <<"b", "k">>, <<"a", "">>}

RawObjects == SUBSET {"a", "b", "zz"}

\* SchemaData.path2route: the route of a path, InvalidSchemaPath for an empty segment
path2route(path) ==
    IF "" \in Range(path)
    THEN [err |-> "InvalidSchemaPath", route |-> <<>>]
    ELSE [err |-> "none", route |-> path]

NotFound == [found |-> FALSE, node |-> <<>>]

\* SchemaNode.get_data_child(name, ns) on the node at p
get_data_child(t, p, name) ==
    IF name \in ChildNames(t, p)
    THEN [found |-> TRUE, node |-> Append(p, name)]
    ELSE NotFound

\* the loop of lines 95-100
RECURSIVE DataDescend(_, _, _)
DataDescend(t, node, addr) ==
    IF addr = <<>> THEN [found |-> TRUE, node |-> node]
    ELSE LET child == get_data_child(t, node, addr[1])
         IN  IF ~child.found THEN NotFound
             ELSE DataDescend(t, child.node, Tail(addr))

\* SchemaNode.get_schema_descendant(route)
get_schema_descendant(t, route) ==
    IF route \in DOMAIN t THEN [found |-> TRUE, node |-> route] ELSE NotFound

\* SchemaNode.node_digest: names and nesting of the tree
node_digest(t) == [p \in DOMAIN t |-> [n \in DOMAIN t[p] |-> t[p][n].name]]

Finish(op, ds, arg, err, val) ==
    /\ result' = [op |-> op, ds |-> ds, arg |-> arg, err |-> err, val |-> val]
    /\ UNCHANGED <<caller, fileState, yltxt, pc, exc, ret, datastores, root,
                   module_sequence, i, j, trace>>

CanCall(ds) ==
    /\ pc = "built"
    /\ caller = "direct"
    /\ ds \in DOMAIN datastores

\* lines 55-65
from_raw(ds, robj) ==
    /\ CanCall(ds)
    /\ LET t == heap[datastores[ds].schema]
       IN  IF robj \subseteq ChildNames(t, <<>>)
           THEN Finish("from_raw", ds, robj, "none",
                       [cooked |-> robj, schema |-> datastores[ds].schema])
           ELSE Finish("from_raw", ds, robj, "RawMemberError", NotFound)
    /\ UNCHANGED heap

\* lines 67-80
get_schema_node(ds, path) ==
    /\ CanCall(ds)
    /\ LET r == path2route(path)
       IN  IF r.err # "none"
           THEN Finish("get_schema_node", ds, path, r.err, NotFound)
           ELSE Finish("get_schema_node", ds, path, "none",
                       get_schema_descendant(heap[datastores[ds].schema], r.route))
    /\ UNCHANGED heap

\* lines 82-100
get_data_node(ds, path) ==
    /\ CanCall(ds)
    /\ LET addr == path2route(path)
       IN  IF addr.err # "none"
           THEN Finish("get_data_node", ds, path, addr.err, NotFound)
           ELSE Finish("get_data_node", ds, path, "none",
                       DataDescend(heap[datastores[ds].schema], <<>>, addr.route))
    /\ UNCHANGED heap

\* lines 102-111
ascii_tree(ds, no_types) ==
    /\ CanCall(ds)
    /\ Finish("ascii_tree", ds, <<>>, "none",
              [lines |-> Cardinality(DOMAIN heap[datastores[ds].schema]) - 1,
               types |-> ~no_types])
    /\ UNCHANGED heap

\* lines 113-115 (a static method: it reads no datastore)
parse_instance_id(ds, txt) ==
    /\ CanCall(ds)
    /\ IF "" \in Range(txt) \/ txt = <<>>
       THEN Finish("parse_instance_id", ds, txt, "UnexpectedInput", NotFound)
       ELSE Finish("parse_instance_id", ds, txt, "none", [found |-> TRUE, node |-> txt])
    /\ UNCHANGED heap

\* lines 117-118
parse_resource_id(ds, txt) ==
    /\ CanCall(ds)
    /\ IF "" \in Range(txt)
       THEN Finish("parse_resource_id", ds, txt, "UnexpectedInput", NotFound)
       ELSE IF txt \notin DOMAIN heap[datastores[ds].schema]
            THEN Finish("parse_resource_id", ds, txt, "NonexistentSchemaNode", NotFound)
            ELSE Finish("parse_resource_id", ds, txt, "none",
                        [found |-> TRUE, node |-> txt])
    /\ UNCHANGED heap

\* a digest that writes its flag into the tree root instead of into its own result
schema_digest_mut(ds) ==
    /\ CanCall(ds)
    /\ Finish("schema_digest", ds, <<>>, "none",
              [nodes |-> node_digest(heap[datastores[ds].schema]), config |-> TRUE])
    /\ heap' = [heap EXCEPT ![datastores[ds].schema] =
                   IF "config" \in ChildNames(@, <<>>) THEN @
                   ELSE AddChild(@, <<>>, [name |-> "config", config |-> TRUE,
                                           aug |-> FALSE])]

\* lines 120-128; json.dumps writes the digest out member for member
schema_digest(ds) ==
    /\ CanCall(ds)
    /\ LET res == node_digest(heap[datastores[ds].schema])
       IN  Finish("schema_digest", ds, <<>>, "none", [nodes |-> res, config |-> TRUE])
    /\ UNCHANGED heap

----------------------------------------------------------------------------
(* json_schema.main *)

FileStates == {"readable", "missing", "noperm"}

\* the attributes DataModel.__init__ sets on the instance
DataModelAttributes == {"datastores", "description", "yang_library"}

\* the except clauses of lines 173-187
YangErrors ==
    {"BadYangLibraryData", "FeaturePrerequisiteError", "MultipleImplementedRevisions",
     "ModuleNotFound", "ModuleNotRegistered"}

\* lines 163-170: read the library file
MainOpen ==
    /\ pc = "main_open"
    /\ CASE fileState = "readable" -> pc' = "ctor" /\ UNCHANGED <<exc, ret>>
         [] fileState = "missing" -> pc' = "exit" /\ ret' = 1 /\ exc' = exc
         [] fileState = "noperm" -> pc' = "exit" /\ ret' = 1 /\ exc' = exc
    /\ UNCHANGED <<caller, fileState, yltxt, datastores, heap, root, module_sequence,
                   i, j, trace, result>>

\* lines 171-187: the constructor raised
MainCatch ==
    /\ pc = "raised"
    /\ caller = "main"
    /\ IF exc.cls \in YangErrors
       THEN pc' = "exit" /\ ret' = 2
       ELSE pc' = "uncaught" /\ ret' = ret
    /\ UNCHANGED <<caller, fileState, yltxt, exc, datastores, heap, root,
                   module_sequence, i, j, trace, result>>

\* lines 189-190: walk(dm.schema); return 0
MainWalk ==
    /\ pc = "built"
    /\ caller = "main"
    /\ IF "schema" \in DataModelAttributes
       THEN pc' = "exit" /\ ret' = 0 /\ exc' = exc
       ELSE pc' = "uncaught" /\ exc' = Exc("AttributeError", "schema") /\ ret' = ret
    /\ UNCHANGED <<caller, fileState, yltxt, datastores, heap, root, module_sequence,
                   i, j, trace, result>>

----------------------------------------------------------------------------
(* The specification of the data model's life *)

PredIdle == text = <<>> /\ offset = 0 /\ matched = [state |-> "idle", ok |-> FALSE, end |-> 0]

WalkIdle ==
    /\ choice = <<>>
    /\ wpc = "idle"
    /\ ci = 0
    /\ objs = <<>>
    /\ parent_level_data = [properties |-> 0, required |-> 0, type |-> "object",
                            description |-> ""]
    /\ children_data = [properties |-> 0, required |-> 0, type |-> "object",
                        description |-> ""]
    /\ cases = <<>>

DmIdle ==
    /\ caller = "none"
    /\ fileState = "readable"
    /\ yltxt = [wf |-> FALSE, jtype |-> "none", marker |-> FALSE, mods |-> {}]
    /\ pc = "idle"
    /\ exc = NoExc
    /\ ret = -1
    /\ datastores = EmptyMap
    /\ heap = EmptyMap
    /\ root = 0
    /\ module_sequence = <<>>
    /\ i = 1
    /\ j = 1
    /\ trace = <<>>
    /\ result = NoResult

Init ==
    /\ caller \in {"main", "direct"}
    /\ fileState \in (IF caller = "main" THEN FileStates ELSE {"readable"})
    /\ yltxt \in LibraryTexts
    /\ pc = IF caller = "main" THEN "main_open" ELSE "ctor"
    /\ exc = NoExc
    /\ ret = -1
    /\ datastores = EmptyMap
    /\ heap = EmptyMap
    /\ root = 0
    /\ module_sequence = <<>>
    /\ i = 1
    /\ j = 1
    /\ trace = <<>>
    /\ result = NoResult
    /\ PredIdle
    /\ WalkIdle

Facade ==
    \E ds \in {"config", "operational"} :
        \/ \E robj \in RawObjects : from_raw(ds, robj)
        \/ \E path \in Texts : get_schema_node(ds, path)
        \/ \E path \in Paths : get_data_node(ds, path)
        \/ \E no_types \in BOOLEAN : ascii_tree(ds, no_types)
        \/ \E txt \in Texts : parse_instance_id(ds, txt)
        \/ \E txt \in Texts : parse_resource_id(ds, txt)
        \/ schema_digest(ds)

Dm(A) == A /\ UNCHANGED <<predVars, walkVars>>

Next ==
    \/ Dm(MainOpen)
    \/ Dm(DataModel_init)
    \/ Dm(SchemaData_init)
    \/ Dm(Pass1Step)
    \/ Dm(Pass2Step)
    \/ Dm(PostProcess)
    \/ Dm(MakeSchemaPatterns)
    \/ Dm(RegisterConfig)
    \/ Dm(RegisterOperational)
    \/ Dm(MainCatch)
    \/ Dm(MainWalk)
    \/ Dm(Facade)

Spec == Init /\ [][Next]_vars

----------------------------------------------------------------------------
(* Properties of the build *)

Events(kind) == {n \in DOMAIN trace : trace[n][1] = kind}

Pos(ms, mid) == CHOOSE n \in DOMAIN ms : ms[n] = mid

AugIds(ms) == UNION {{<<m, k>> : k \in DOMAIN modules[m].augments} : m \in Range(ms)}

\* <<m1, k1>> comes before <<m2, k2>> in module_sequence order, then statement order
AugBefore(ms, m1, k1, m2, k2) ==
    \/ Pos(ms, m1) < Pos(ms, m2)
    \/ m1 = m2 /\ k1 < k2

BuildComplete ==
    /\ trace # <<>>
    /\ trace[Len(trace)][1] = "make_schema_patterns"

\* C1: _build_schema instantiates every module's top-level statements in
\* module_sequence order before the first augment is applied, then applies the
\* augments module by module in the same order, then runs post_process exactly
\* once after the last augment and make_schema_patterns exactly once after it.
C1_BuildOrder ==
    LET ms == module_sequence
        P1 == Events("handle_substatements")
        AG == Events("augment_stmt")
        PP == Events("post_process")
        MP == Events("make_schema_patterns")
    IN  /\ \A p \in P1 : p <= Len(ms) /\ trace[p][2] = ms[p]
        /\ \A p \in P1, a \in AG : p < a
        /\ AG # {} => Cardinality(P1) = Len(ms)
        /\ \A a \in AG : <<trace[a][2], trace[a][3]>> \in AugIds(ms)
        /\ \A a, b \in AG :
              a < b => AugBefore(ms, trace[a][2], trace[a][3], trace[b][2], trace[b][3])
        /\ \A a \in AG :
              \A id \in AugIds(ms) :
                 AugBefore(ms, id[1], id[2], trace[a][2], trace[a][3])
                   => \E b \in AG : b < a /\ trace[b][2] = id[1] /\ trace[b][3] = id[2]
        /\ Cardinality(PP) <= 1
        /\ \A q \in PP :
              /\ Cardinality(P1) = Len(ms)
              /\ Cardinality(AG) = Cardinality(AugIds(ms))
              /\ \A n \in P1 \cup AG : n < q
        /\ Cardinality(MP) <= 1
        /\ \A q \in MP : q = Len(trace) /\ \E p \in PP : p = q - 1
        /\ pc \in {"reg_config", "reg_operational", "built"} => MP # {} /\ PP # {}

C1_Witness ==
    /\ pc = "built"
    /\ Len(module_sequence) >= 3
    /\ Cardinality(Events("augment_stmt")) >= 3

RECURSIVE Pass1Fold(_, _)
Pass1Fold(t, ms) ==
    IF ms = <<>> THEN [err |-> "none", tree |-> t]
    ELSE LET r == handle_substatements(t, modules[ms[1]].top)
         IN  IF r.err # "none" THEN r ELSE Pass1Fold(r.tree, Tail(ms))

RECURSIVE ApplyAugs(_, _)
ApplyAugs(t, stmts) ==
    IF stmts = <<>> THEN [err |-> "none", tree |-> t]
    ELSE LET r == augment_stmt(t, stmts[1])
         IN  IF r.err # "none" THEN r ELSE ApplyAugs(r.tree, Tail(stmts))

Perms(n) == {f \in [1..n -> 1..n] : \A a, b \in 1..n : a # b => f[a] # f[b]}

Outcome(r) == IF r.err = "none" THEN [ok |-> TRUE, tree |-> r.tree]
              ELSE [ok |-> FALSE, tree |-> EmptyTree]

Pass2Ended ==
    \/ pc = "post"
    \/ pc = "raised" /\ exc.cls \in {"UnresolvedAugmentTarget", "DuplicateNode"}

\* C2: pass 2 is order-independent: the augments resolve against the tree of the
\* end of pass 1, pass 2 passes only if every target exists there, fails if one
\* does not, and applying the same augments in any other order gives the same
\* outcome: the same final tree, or a failure.
C2_OrderIndependent ==
    Pass2Ended =>
      LET augs == AugList(module_sequence)
          base == Pass1Fold(EmptyTree, module_sequence).tree
          actual == IF pc = "post" THEN [ok |-> TRUE, tree |-> heap[root]]
                    ELSE [ok |-> FALSE, tree |-> EmptyTree]
      IN  /\ pc = "post" => \A n \in DOMAIN augs : augs[n].stmt.target \in DOMAIN base
          /\ (\E n \in DOMAIN augs : augs[n].stmt.target \notin DOMAIN base)
                => pc = "raised"
          /\ \A f \in Perms(Len(augs)) :
                Outcome(ApplyAugs(base, [n \in DOMAIN augs |-> augs[f[n]].stmt])) = actual

\* C3: when a step of the build raises, the constructor raises with no datastore
\* registered; datastores has entries only after the whole build has completed,
\* and both entries once the constructor has returned.
C3_NoExposure ==
    /\ pc = "raised" => DOMAIN datastores = {}
    /\ DOMAIN datastores # {} => BuildComplete /\ pc # "raised"
    /\ pc = "built" => DOMAIN datastores = {"config", "operational"}

C3_Witness ==
    /\ pc = "raised"
    /\ exc.cls = "UnresolvedAugmentTarget"
    /\ Cardinality(Events("augment_stmt")) >= 2

OperationalOnly(t, p) ==
    /\ p # <<>>
    /\ p \in DOMAIN t
    /\ ~ChildRec(t, p).config

\* C4: for a path that addresses an operational-only node, get_data_node returns
\* None on the datastore with content type Config and the node on the one with
\* content type All.
C4_ConfigHidesOperational ==
    (/\ result.op = "get_data_node"
     /\ result.err = "none"
     /\ OperationalOnly(heap[root], result.arg))
      => IF datastores[result.ds].content_type = "config"
         THEN ~result.val.found
         ELSE result.val.found /\ result.val.node = result.arg

CtorRan ==
    /\ pc \notin {"main_open", "ctor"}
    /\ fileState = "readable"

\* C6: text that is not valid JSON is rejected with the invalid-library-data
\* error, valid JSON without the marker member with the unrecognized-content
\* error; the two differ, and in both cases nothing is built or registered.
C6_TwoDistinctErrors ==
    /\ Exc("BadYangLibraryData", "JSONDecodeError")
          # Exc("BadYangLibraryData", "top-level member not recognized")
    /\ (CtorRan /\ ~yltxt.wf) =>
          /\ exc = Exc("BadYangLibraryData", "JSONDecodeError")
          /\ DOMAIN datastores = {} /\ root = 0 /\ trace = <<>>
    /\ (CtorRan /\ yltxt.wf /\ ~(yltxt.jtype = "object" /\ yltxt.marker)) =>
          /\ exc = Exc("BadYangLibraryData", "top-level member not recognized")
          /\ DOMAIN datastores = {} /\ root = 0 /\ trace = <<>>

\* C7: the digest's config flag is true on the datastore with content type
\* Config and false on the one with content type All.
C7_DigestFlag ==
    result.op = "schema_digest" =>
        result.val.config = (datastores[result.ds].content_type = "config")

\* C9: main returns 0 when the file is readable and the DataModel is built,
\* 2 when the constructor raises a YANG error, 1 when the file cannot be read.
C9_ExitCodes ==
    (caller = "main" /\ pc \in {"exit", "uncaught"}) =>
        /\ fileState # "readable" => pc = "exit" /\ ret = 1
        /\ (fileState = "readable" /\ exc.cls \in YangErrors) => pc = "exit" /\ ret = 2
        /\ (fileState = "readable" /\ DOMAIN datastores = {"config", "operational"})
              => pc = "exit" /\ ret = 0

----------------------------------------------------------------------------
(* constants.pred_re *)

Alphabet == {"[", "]", "a", "1", " ", "=", "'"}

SpaceChars == {" ", "\t", "\n", "\r", "\f"}      \* \s
DigitChars == {"0", "1", "2", "3", "4", "5", "6", "7", "8", "9"}   \* \d
IdentStart == {"a", "_"}                         \* [a-zA-Z_]
IdentRest == IdentStart \cup DigitChars \cup {".", "-"}   \* [a-zA-Z0-9_.-]

\* the character at a 0-based offset, "" past the end
At(s, o) == IF o < Len(s) THEN s[o + 1] ELSE ""

RECURSIVE SkipWhile(_, _, _)
SkipWhile(s, o, chars) ==
    IF At(s, o) \in chars THEN SkipWhile(s, o + 1, chars) ELSE o

\* _ident: the end of the identifier at o, -1 when there is none
ScanIdent(s, o) ==
    IF At(s, o) \in IdentStart THEN SkipWhile(s, o + 1, IdentRest) ELSE -1

\* _pname: ((?P<prf>ident):)?(?P<loc>ident)
ScanPname(s, o) ==
    LET e1 == ScanIdent(s, o)
    IN  IF e1 = -1 THEN -1
        ELSE IF At(s, e1) = ":" /\ ScanIdent(s, e1 + 1) # -1
             THEN ScanIdent(s, e1 + 1)
             ELSE e1

RECURSIVE ScanUntil(_, _, _)
ScanUntil(s, o, q) ==
    IF o >= Len(s) THEN -1
    ELSE IF s[o + 1] = q THEN o + 1
         ELSE ScanUntil(s, o + 1, q)

\* _rhs: "[^"]*" or '[^']*'
ScanRhs(s, o) ==
    IF At(s, o) \in {"\"", "'"} THEN ScanUntil(s, o + 1, At(s, o)) ELSE -1

\* (_pname|\.)\s*=\s*_rhs
ScanKeyed(s, o) ==
    LET lhs == IF At(s, o) = "." THEN o + 1 ELSE ScanPname(s, o)
        eq == IF lhs = -1 THEN -1 ELSE SkipWhile(s, lhs, SpaceChars)
    IN  IF lhs = -1 \/ At(s, eq) # "=" THEN -1
        ELSE ScanRhs(s, SkipWhile(s, eq + 1, SpaceChars))

\* (?P<pos>\d*)
ScanPos(s, o) == SkipWhile(s, o, DigitChars)

\* \s*\] after the alternative that ended at o
CloseAt(s, o) ==
    LET c == SkipWhile(s, o, SpaceChars)
    IN  IF At(s, c) = "]" THEN c + 1 ELSE -1

\* pred_re.match(text, offset): whether it matched, and the offset after
pred_re_match(s, off) ==
    IF At(s, off) # "[" THEN [ok |-> FALSE, end |-> off]
    ELSE LET body == SkipWhile(s, off + 1, SpaceChars)
             keyed == ScanKeyed(s, body)
             k == IF keyed = -1 THEN -1 ELSE CloseAt(s, keyed)
             p == CloseAt(s, ScanPos(s, body))
         IN  IF k # -1 THEN [ok |-> TRUE, end |-> k]
             ELSE IF p # -1 THEN [ok |-> TRUE, end |-> p]
                  ELSE [ok |-> FALSE, end |-> off]

\* the subject strings of at most n characters
PredInputs(n) == SeqsUpTo(Alphabet, n)

PredMatch ==
    /\ matched.state = "none"
    /\ LET m == pred_re_match(text, offset)
       IN  matched' = [state |-> "done", ok |-> m.ok, end |-> m.end]
    /\ UNCHANGED <<text, offset, dmVars, walkVars>>

InitPred ==
    /\ text \in PredInputs(MaxTextLen)
    /\ offset \in 0..MaxOffset
    /\ offset <= Len(text)
    /\ matched = [state |-> "none", ok |-> FALSE, end |-> 0]
    /\ DmIdle
    /\ WalkIdle

NextPred == PredMatch

SpecPred == InitPred /\ [][NextPred]_vars

(* The grammar of the predicate token, as two shapes of a whole string *)

Sub(s, a, b) == SubSeq(s, a + 1, b)

AllIn(u, chars) == \A n \in DOMAIN u : u[n] \in chars

IsWs(u) == AllIn(u, {" ", "\n", "\t", "\r"})
IsDigits(u) == u # <<>> /\ AllIn(u, DigitChars)
IsIdent(u) == u # <<>> /\ u[1] \in IdentStart /\ AllIn(u, IdentRest)
IsQName(u) ==
    \/ IsIdent(u)
    \/ \E c \in DOMAIN u :
          u[c] = ":" /\ IsIdent(SubSeq(u, 1, c - 1)) /\ IsIdent(SubSeq(u, c + 1, Len(u)))
IsQuoted(u) ==
    /\ Len(u) >= 2
    /\ u[1] \in {"\"", "'"}
    /\ u[Len(u)] = u[1]
    /\ \A n \in 2..(Len(u) - 1) : u[n] # u[1]

\* "[" ws digits ws "]"
IsPositional(u) ==
    /\ Len(u) >= 3 /\ u[1] = "[" /\ u[Len(u)] = "]"
    /\ \E a, b \in 2..(Len(u) - 1) :
          /\ a <= b
          /\ IsWs(SubSeq(u, 2, a - 1))
          /\ IsDigits(SubSeq(u, a, b))
          /\ IsWs(SubSeq(u, b + 1, Len(u) - 1))

\* "[" ws (qualified-name | ".") ws "=" ws quoted-literal ws "]"
IsKeyed(u) ==
    /\ Len(u) >= 6 /\ u[1] = "[" /\ u[Len(u)] = "]"
    /\ \E a, b, e, q, r \in 2..(Len(u) - 1) :
          /\ a <= b /\ b < e /\ e < q /\ q < r
          /\ IsWs(SubSeq(u, 2, a - 1))
          /\ (IsQName(SubSeq(u, a, b)) \/ SubSeq(u, a, b) = <<".">>)
          /\ IsWs(SubSeq(u, b + 1, e - 1))
          /\ u[e] = "="
          /\ IsWs(SubSeq(u, e + 1, q - 1))
          /\ IsQuoted(SubSeq(u, q, r))
          /\ IsWs(SubSeq(u, r + 1, Len(u) - 1))

\* C8: the predicate rule matches exactly the keyed and the positional shape,
\* the latter with at least one digit; any other text is no match, with the
\* offset left where it was.
C8_PredicateShapes ==
    matched.state = "done" =>
        /\ matched.ok <=>
              \E e \in offset..Len(text) :
                 IsKeyed(Sub(text, offset, e)) \/ IsPositional(Sub(text, offset, e))
        /\ matched.ok =>
              (IsKeyed(Sub(text, offset, matched.end))
                 \/ IsPositional(Sub(text, offset, matched.end)))
        /\ ~matched.ok => matched.end = offset

----------------------------------------------------------------------------
(* json_schema.walk_json_schema on a ChoiceNode *)

LeafNames == {"p", "q", "r"}

\* the datatype class of each leaf
LeafType == [n \in LeafNames |->
                CASE n = "p" -> "BooleanType" [] n = "q" -> "Int32Type" [] n = "r" -> "StringType"]

jsonschema_type_from_class(nodetype) ==
    IF nodetype = "BooleanType" THEN "boolean"
    ELSE IF nodetype \in {"Int8Type", "Int16Type", "Int32Type", "Int64Type", "Uint8Type",
                          "Uint16Type", "Uint32Type", "Uint64Type", "Decimal64Type"}
         THEN "number"
         ELSE "string"

CaseNames == <<"c1", "c2", "c3", "c4">>

\* the children of the cases: leaves, no name twice under one choice
CaseChildren == {c \in SeqsUpTo(LeafNames, MaxCaseChildren) : NoRepeat(c)}

Choices ==
    {[name |-> "ch", mandatory |-> m,
      children |-> [n \in DOMAIN cs |-> [name |-> CaseNames[n], children |-> cs[n]]]] :
        m \in BOOLEAN,
        cs \in {c \in SeqsUpTo(CaseChildren, MaxCases) :
                   \A a, b \in DOMAIN c : a # b => Range(c[a]) \cap Range(c[b]) = {}}}

\* identities of the objects of one call
ParentProps == 1
ParentRequired == 2
ChildrenProps == 3
ChildrenRequired == 4

\* lines 61-69: a terminal node written into the properties dict d
RECURSIVE WalkLeaves(_, _)
WalkLeaves(d, leaves) ==
    IF leaves = <<>> THEN d
    ELSE WalkLeaves(
           (leaves[1] :> [description |-> leaves[1],
                          type |-> jsonschema_type_from_class(LeafType[leaves[1]])])
             @@ d,
           Tail(leaves))

\* dict.update
Update(d, e) == e @@ d

\* copy.copy: the copy refers to the objects the original refers to
CopyDict(heapNow, d) == [heapIs |-> heapNow, copy |-> d]

\* lines 73-91: the local children_data and the empty list of cases
WalkStart ==
    /\ wpc = "start"
    /\ children_data' = [properties |-> ChildrenProps, required |-> ChildrenRequired,
                         type |-> "object", description |-> choice.name]
    /\ objs' = objs \o <<EmptyMap, <<>>>>
    /\ cases' = <<>>
    /\ ci' = 1
    /\ wpc' = "loop"
    /\ UNCHANGED <<choice, parent_level_data, dmVars, predVars>>

\* lines 92-98: one child of the choice, a CaseNode, walked into a copy of
\* children_data (lines 81-86 and 108-121 of the inner call)
WalkCase ==
    /\ wpc = "loop"
    /\ ci <= Len(choice.children)
    /\ LET child == choice.children[ci]
           c == CopyDict(objs, children_data)
           blank == c.copy
           inner == WalkLeaves(EmptyMap, child.children)
           new_node == [title |-> child.name,
                        properties |-> blank.properties,
                        additionalProperties |-> FALSE,
                        required |-> child.children]
       IN  /\ objs' = [c.heapIs EXCEPT ![blank.properties] = Update(@, inner)]
           /\ cases' = Append(cases, new_node)
    /\ ci' = ci + 1
    /\ UNCHANGED <<choice, wpc, parent_level_data, children_data, dmVars, predVars>>

\* lines 99-106: the '_choice:<name>' entry of the parent
WalkFinish ==
    /\ wpc = "loop"
    /\ ci > Len(choice.children)
    /\ objs' = [objs EXCEPT
                  ![parent_level_data.properties] =
                      (<<"_choice:", choice.name>> :>
                          [title |-> choice.name, oneOf |-> cases,
                           additionalProperties |-> FALSE]) @@ @,
                  ![parent_level_data.required] =
                      IF choice.mandatory THEN Append(@, <<"_choice:", choice.name>>)
                      ELSE @]
    /\ wpc' = "done"
    /\ UNCHANGED <<choice, ci, parent_level_data, children_data, cases, dmVars, predVars>>

InitWalk ==
    /\ choice \in Choices
    /\ wpc = "start"
    /\ ci = 0
    /\ objs = <<EmptyMap, <<>>>>
    /\ parent_level_data = [properties |-> ParentProps, required |-> ParentRequired,
                            type |-> "object", description |-> "parent"]
    /\ children_data = [properties |-> 0, required |-> 0, type |-> "object",
                        description |-> ""]
    /\ cases = <<>>
    /\ DmIdle
    /\ PredIdle

NextWalk ==
    \/ WalkStart
    \/ WalkCase
    \/ WalkFinish

SpecWalk == InitWalk /\ [][NextWalk]_vars

\* C10: every alternative of the oneOf list has the properties of its own case's
\* children and no others (the walk of another case never extends them), and
\* the walk adds nothing to the parent's properties but the '_choice:<name>' entry.
C10_CasesIsolated ==
    wpc = "done" =>
        /\ \A n \in DOMAIN cases :
              DOMAIN objs[cases[n].properties] = Range(choice.children[n].children)
        /\ DOMAIN objs[parent_level_data.properties] = {<<"_choice:", choice.name>>}

====
